---- MODULE Spec2Model ----
(***************************************************************************)
(* Model of cards_sync.py: the retrying request executor, the two          *)
(* pagination strategies, the flattening transform, the orchestrator       *)
(* (main) and the validation / batch upsert sink.                          *)
(*                                                                         *)
(* JSON scalars are tagged strings so that values of different Python      *)
(* types live in one TLC-comparable universe:                              *)
(*   "null"   None / JSON null / absent .get() result                      *)
(*   "i:<n>"  the integer n            ("i:0" is falsy)                    *)
(*   "s:<t>"  the string t             ("s:" is the empty string, falsy)   *)
(* A JSON object is a function whose DOMAIN is the set of keys present.    *)
(***************************************************************************)
EXTENDS Integers, Sequences, FiniteSets, TLC

VARIABLES
    pc,             \* position of main(): "v2", "v1", "upsert", "done", "fatal" ("idle" in the flatten harness)
    v1site,         \* which call site of fetch_all_cards_v1_cursor is running: "none", "try" (l.179), "except" (l.182)
    attempt,        \* loop variable of _retryable_request for the request in flight
    last_err,       \* last_err of _retryable_request
    reqLog,         \* outcome of every HTTP attempt of the request in flight (status code, NoResponse for an exception)
    sleeps,         \* delays slept by _retryable_request for the request in flight
    offset,         \* fetch_all_cards_v2: offset
    cursor_updated, \* fetch_all_cards_v1_cursor: cursor_updated
    cursor_nm,      \* fetch_all_cards_v1_cursor: cursor_nm
    all_rows,       \* all_rows of the strategy invocation in progress
    v2_pages,       \* items lists received by fetch_all_cards_v2, in request order
    v1_pages,       \* items lists received by the latest fetch_all_cards_v1_cursor invocation
    v1_total,       \* remaining-count (cursor.total) the server reported with the latest v1 page, -1 before any
    v2res,          \* outcome of fetch_all_cards_v2: "none", "running", "returned", "exit", "exc"
    v1res,          \* outcome of the latest fetch_all_cards_v1_cursor invocation, same values
    v1_calls,       \* number of invocations of fetch_all_cards_v1_cursor in this run
    rows,           \* main: rows
    rowsFrom,       \* which invocation produced main's rows: "none", "v2", "v1"
    cleaned,        \* main: cleaned
    dropped,        \* main: dropped
    sent,           \* upsert_catalog: sent
    batches,        \* every batch handed to sb.table(...).upsert(...), in call order
    store,          \* destination table: natural key <<nm_id, barcode>> -> row
    exitCode,       \* process exit status: -1 while running, 0 normal end, 1 SystemExit / uncaught exception
    runNo,          \* upsert harness: which of the two consecutive upsert_catalog runs
    store1,         \* upsert harness: the table as it was after the first run
    items,          \* flatten harness: argument of _flatten_v2_items
    flat,           \* flatten harness: its result
    fpc             \* flatten harness: "start", "done"

vars == <<pc, v1site, attempt, last_err, reqLog, sleeps, offset, cursor_updated,
          cursor_nm, all_rows, v2_pages, v1_pages, v1_total, v2res, v1res, v1_calls, rows, rowsFrom,
          cleaned, dropped, sent, batches, store, exitCode, runNo, store1,
          items, flat, fpc>>

pipelineVars == <<pc, v1site, attempt, last_err, reqLog, sleeps, offset, cursor_updated,
          cursor_nm, all_rows, v2_pages, v1_pages, v1_total, v2res, v1res, v1_calls, rows, rowsFrom,
          cleaned, dropped, sent, batches, store, exitCode, runNo, store1>>

flattenVars == <<items, flat, fpc>>

-----------------------------------------------------------------------------
(* Bounds of the model *)

MaxPages == 2       \* full pages the upstream serves to one strategy invocation before a short one
BATCH_SIZE == 2     \* rows per upsert call (environment setting, default 1000), scaled down
MaxSizes == 2       \* size variants per raw card in the flatten harness
MaxSkus  == 2       \* barcodes per size variant in the flatten harness
MaxRows  == 3       \* validated rows handed to upsert_catalog in the upsert harness

(* Program constants *)

MAX_RETRIES == 3    \* environment setting, default 3
limit == 2          \* page size of both strategies; 1000 in the source, scaled down to keep pages small

-----------------------------------------------------------------------------
(* Python value semantics *)

None == "null"

\* values Python treats as false in `a or b` / `if not x`
Falsy == {"null", "i:0", "s:"}

Truthy(v) == v \notin Falsy

\* a or b
Or(a, b) == IF Truthy(a) THEN a ELSE b

\* d.get(k)
Get(d, k) == IF k \in DOMAIN d THEN d[k] ELSE None

\* d.get(k) or []  for list-valued keys (a JSON null list behaves as [])
GetList(d, k) == IF k \in DOMAIN d THEN d[k] ELSE <<>>

\* str(v) on the scalars of the model
PyStr(v) ==
    CASE v = "i:333" -> "s:333"
      [] v = "i:0"   -> "s:0"
      [] v = "null"  -> "s:None"
      [] OTHER       -> v

StrValues == {"s:", "s:0", "s:None", "s:111", "s:222", "s:333", "s:444"}

-----------------------------------------------------------------------------
(* Flattening transform *)

\* rows.append({...}) for one barcode
MakeRow(it, s, bc) ==
    [nm_id         |-> Or(Get(it, "nmID"), Get(it, "nmId")),
     imt_id        |-> Or(Get(it, "imtID"), Get(it, "imtId")),
     vendor_code   |-> Get(it, "vendorCode"),
     brand         |-> Get(it, "brand"),
     subject       |-> Or(Get(it, "subjectName"), Get(it, "subject")),
     tech_size     |-> Or(Get(s, "techSize"), Get(s, "techSizeName")),
     size_id       |-> Or(Get(s, "sizeID"), Get(s, "sizeId")),
     barcode       |-> PyStr(bc),
     updated_at_wb |-> Get(it, "updatedAt")]

\* for bc in skus: if not bc: continue; rows.append(...)
RECURSIVE FlattenSkusKeepFalsy(_, _, _)
FlattenSkusKeepFalsy(it, s, skus) ==
    IF skus = <<>> THEN <<>>
    ELSE <<MakeRow(it, s, Head(skus))>> \o FlattenSkusKeepFalsy(it, s, Tail(skus))

RECURSIVE FlattenSkus(_, _, _)
FlattenSkus(it, s, skus) ==
    IF skus = <<>> THEN <<>>
    ELSE (IF Truthy(Head(skus)) THEN <<MakeRow(it, s, Head(skus))>> ELSE <<>>)
         \o FlattenSkus(it, s, Tail(skus))

\* for s in sizes: ...
RECURSIVE FlattenSizes(_, _)
FlattenSizes(it, sizes) ==
    IF sizes = <<>> THEN <<>>
    ELSE FlattenSkus(it, Head(sizes), GetList(Head(sizes), "skus"))
         \o FlattenSizes(it, Tail(sizes))

\* for it in items: ...
RECURSIVE _flatten_v2_items(_)
_flatten_v2_items(its) ==
    IF its = <<>> THEN <<>>
    ELSE FlattenSizes(Head(its), GetList(Head(its), "sizes"))
         \o _flatten_v2_items(Tail(its))

_flatten_v1_items(its) == _flatten_v2_items(its)

-----------------------------------------------------------------------------
(* Inputs of the flatten harness *)

SeqsUpTo(S, n) == UNION { [1..k -> S] : k \in 0..n }

NoKeys == [k \in {} |-> None]

Barcodes == {"s:111", "i:333", "s:"}

SkusParts == {NoKeys} \cup { [skus |-> b] : b \in SeqsUpTo(Barcodes, MaxSkus) }

\* the two key spellings of a size variant: odd positions of a sizes list use
\* the first spelling, even positions the second
SizeLabelAt(i) ==
    IF i % 2 = 1 THEN [techSize |-> "s:M", sizeID |-> "i:10"]
    ELSE [techSizeName |-> "s:L", sizeId |-> "i:20"]

\* the first variant of a card takes any barcode list, later variants one of a few
LaterSkusParts ==
    {NoKeys, [skus |-> <<>>], [skus |-> <<"s:222">>], [skus |-> <<"s:", "s:111">>]}

SkusChoices(n) ==
    IF n = 0 THEN {<<>>}
    ELSE { <<a>> \o r : a \in SkusParts, r \in [1..(n - 1) -> LaterSkusParts] }

SizesLists ==
    UNION { { [i \in 1..n |-> SizeLabelAt(i) @@ ks[i]] : ks \in SkusChoices(n) } :
            n \in 0..MaxSizes }

SizesParts == {NoKeys} \cup { [sizes |-> z] : z \in SizesLists }

CardHeadParts ==
    { [nmID |-> "i:1", imtID |-> "i:7", vendorCode |-> "s:vc", brand |-> "s:br",
       subjectName |-> "s:sub", updatedAt |-> "s:t1"],
      [nmId |-> "i:2", imtId |-> "i:8", subject |-> "s:sub2"] }

\* raw cards that carry both spellings of the aliased fields, or a
\* false-valued first spelling (JSON null, 0, "") with or without the second
AliasCards ==
    { [nmID |-> "i:1", nmId |-> "i:2", imtID |-> "i:7", imtId |-> "i:8",
       subjectName |-> "s:sub", subject |-> "s:sub2",
       sizes |-> <<[techSize |-> "s:M", techSizeName |-> "s:L", sizeID |-> "i:10",
                    sizeId |-> "i:20", skus |-> <<"s:111">>]>>],
      [nmID |-> "i:0", nmId |-> "i:2", imtID |-> "null", imtId |-> "i:8",
       subjectName |-> "s:", subject |-> "s:sub2",
       sizes |-> <<[techSize |-> "s:", techSizeName |-> "s:L", sizeID |-> "i:0",
                    sizeId |-> "i:20", skus |-> <<"s:111">>]>>],
      [nmID |-> "i:1", imtID |-> "i:0", subjectName |-> "s:",
       sizes |-> <<[techSize |-> "s:", sizeID |-> "i:0", skus |-> <<"s:111">>]>>] }

FlatCards == { h @@ z : h \in CardHeadParts, z \in SizesParts } \cup AliasCards

-----------------------------------------------------------------------------
(* Upstream API and destination table: the inputs the environment may give *)

\* status codes the upstream answers with in the model
Statuses == {200, 404, 429, 503}

\* reqLog entry of an attempt on which requests.request raised (no response)
NoResponse == 0

CardA ==
    [nmID |-> "i:1", imtID |-> "i:7", vendorCode |-> "s:vc", brand |-> "s:br",
     subjectName |-> "s:sub", updatedAt |-> "s:t1",
     sizes |-> << [techSize |-> "s:M", sizeID |-> "i:10", skus |-> <<"s:111", "s:222">>] >>]

CardNoNm ==
    [vendorCode |-> "s:vc", updatedAt |-> "s:t2",
     sizes |-> << [techSizeName |-> "s:L", sizeId |-> "i:20", skus |-> <<"i:333">>] >>]

PageCards == {CardA, CardNoNm}

\* a page holds at most `limit` cards
Pages == SeqsUpTo(PageCards, limit)

\* the upstream serves at most MaxPages full pages to one strategy invocation,
\* then a short or empty one
UpstreamServes(log, its) ==
    /\ Len(log) <= MaxPages
    /\ Len(its) = limit => Len(log) < MaxPages

StaleRow ==
    [nm_id |-> "i:1", imt_id |-> "i:7", vendor_code |-> "s:old", brand |-> "s:old",
     subject |-> "s:sub", tech_size |-> "s:M", size_id |-> "i:10",
     barcode |-> "s:111", updated_at_wb |-> "s:t0"]

RowKey(r) == <<r.nm_id, r.barcode>>

EmptyStore == [k \in {} |-> StaleRow]

StoreWith(r) == [k \in {RowKey(r)} |-> r]

InitialStores == {EmptyStore, StoreWith(StaleRow)}

-----------------------------------------------------------------------------
(* _retryable_request *)

TransientStatuses == {429, 500, 502, 503, 504}

\* resp.raise_for_status() raises HTTPError
RaisesForStatus(status) == status >= 400 /\ status <= 599

Min(a, b) == IF a < b THEN a ELSE b

\* delay = min(30, 2 ** attempt)
Delay(a) == Min(30, 2 ^ a)

\* for attempt in range(1, MAX_RETRIES + 1): is there another iteration after `a`
HasNextAttemptOffByOne(a) == a + 1 < MAX_RETRIES

HasNextAttempt(a) == a < MAX_RETRIES

\* what the except clause of _retryable_request stores for an HTTPError
CaughtHTTPError(status) == "HTTPError"

\* the next call of _retryable_request starts afresh; `sleeps` thereby holds
\* every time.sleep of the process since the latest response with status 200
ResetRequestAfterPause ==
    /\ attempt' = 1
    /\ last_err' = "None"
    /\ reqLog' = <<>>
    /\ sleeps' = <<1>>

ResetRequest ==
    /\ attempt' = 1
    /\ last_err' = "None"
    /\ reqLog' = <<>>
    /\ sleeps' = <<>>

\* One failed attempt: sleep, then either the next iteration or, after the
\* last one, raise SystemExit.  SystemExit is not an Exception, so main's
\* `except Exception` does not catch it and the process exits with status 1.
FailedAttempt(outcome, err) ==
    /\ pc \in {"v2", "v1"}
    /\ reqLog' = Append(reqLog, outcome)
    /\ last_err' = err
    /\ sleeps' = Append(sleeps, Delay(attempt))
    /\ IF HasNextAttempt(attempt)
       THEN /\ attempt' = attempt + 1
            /\ UNCHANGED <<pc, exitCode, v2res, v1res>>
       ELSE /\ attempt' = attempt
            /\ pc' = "fatal"
            /\ exitCode' = 1
            /\ IF pc = "v2"
               THEN v2res' = "exit" /\ UNCHANGED v1res
               ELSE v1res' = "exit" /\ UNCHANGED v2res
    /\ UNCHANGED <<v1site, offset, cursor_updated, cursor_nm, all_rows, v2_pages,
                   v1_pages, v1_total, v1_calls, rows, rowsFrom, cleaned, dropped, sent,
                   batches, store, runNo, store1>>

\* requests.request raises (connection failure, timeout)
AttemptTransportError == FailedAttempt(NoResponse, "ConnectionError")

\* status in (429, 500, 502, 503, 504): sleep and continue, last_err untouched
AttemptTransient(status) ==
    /\ status \in TransientStatuses
    /\ FailedAttempt(status, last_err)

\* any other 4xx/5xx: raise_for_status raises inside the try, the except
\* clause catches it like a transport error
AttemptHTTPError(status) ==
    /\ status \notin TransientStatuses
    /\ RaisesForStatus(status)
    /\ FailedAttempt(status, CaughtHTTPError(status))

-----------------------------------------------------------------------------
(* Validation and the batch upsert sink *)

\* r.get("nm_id") and r.get("barcode")
IsValidRowBarcodeOnly(r) == Truthy(r.barcode)

IsValidRow(r) == Truthy(r.nm_id) /\ Truthy(r.barcode)

\* cleaned = [r for r in rows if ...]
Clean(rs) == SelectSeq(rs, IsValidRow)

\* chunked(iterable, size), with the generator's buf made explicit
RECURSIVE ChunkedFrom(_, _, _)
ChunkedFrom(xs, size, buf) ==
    IF xs = <<>>
    THEN (IF buf # <<>> THEN <<buf>> ELSE <<>>)
    ELSE LET b == Append(buf, Head(xs))
         IN  IF Len(b) = size
             THEN <<b>> \o ChunkedFrom(Tail(xs), size, <<>>)
             ELSE ChunkedFrom(Tail(xs), size, b)

RECURSIVE ChunkedOneMore(_, _, _)
ChunkedOneMore(xs, size, buf) ==
    IF xs = <<>>
    THEN (IF buf # <<>> THEN <<buf>> ELSE <<>>)
    ELSE LET b == Append(buf, Head(xs))
         IN  IF Len(b) = size + 1
             THEN <<b>> \o ChunkedOneMore(Tail(xs), size, <<>>)
             ELSE ChunkedOneMore(Tail(xs), size, b)

RECURSIVE ChunkedDropTail(_, _, _)
ChunkedDropTail(xs, size, buf) ==
    IF xs = <<>>
    THEN <<>>
    ELSE LET b == Append(buf, Head(xs))
         IN  IF Len(b) = size
             THEN <<b>> \o ChunkedDropTail(Tail(xs), size, <<>>)
             ELSE ChunkedDropTail(Tail(xs), size, b)

chunkedDropTail(xs, size) == ChunkedDropTail(xs, size, <<>>)

chunkedOneMore(xs, size) == ChunkedOneMore(xs, size, <<>>)

chunked(xs, size) == ChunkedFrom(xs, size, <<>>)

\* .upsert(batch, on_conflict="nm_id,barcode"): a row whose key exists
\* overwrites it, a new key is inserted; rows apply in batch order
RECURSIVE StoreUpsert(_, _)
StoreUpsert(st, batch) ==
    IF batch = <<>> THEN st
    ELSE StoreUpsert((RowKey(Head(batch)) :> Head(batch)) @@ st, Tail(batch))

\* upsert_catalog entry: `if total == 0: print(...); return`, after which
\* main prints "Done." and ends normally
UpsertEntryEmptyFatal(total) == IF total = 0 THEN "fatal" ELSE "upsert"

UpsertEntry(total) == IF total = 0 THEN "done" ELSE "upsert"

ExitOf(p, old) ==
    CASE p = "done"  -> 0
      [] p = "fatal" -> 1
      [] OTHER       -> old

\* main lines 184-192 up to the first call of the sink: validation, the
\* dropped count, create_client and the entry of upsert_catalog
AfterFetch(result, from) ==
    /\ rows' = result
    /\ rowsFrom' = from
    /\ cleaned' = Clean(result)
    /\ dropped' = Len(result) - Len(Clean(result))
    /\ sent' = 0
    /\ pc' = UpsertEntry(Len(Clean(result)))
    /\ exitCode' = ExitOf(UpsertEntry(Len(Clean(result))), exitCode)

\* `if getattr(res, "error", None): raise SystemExit(...)`: where the run
\* stands after a batch whose result carries an error
OnUpsertErrorGoOn(last) == IF last THEN "done" ELSE "upsert"

OnUpsertError(last) == "fatal"

\* one iteration of `for batch in chunked(rows, BATCH_SIZE)`: the call of
\* upsert(...).execute() and its result; err is whether res.error is set
UpsertBatch(err) ==
    /\ pc = "upsert"
    /\ Len(batches) < Len(chunked(cleaned, BATCH_SIZE))
    /\ LET batch == chunked(cleaned, BATCH_SIZE)[Len(batches) + 1]
           last  == Len(batches) + 1 = Len(chunked(cleaned, BATCH_SIZE))
       IN  /\ batches' = Append(batches, batch)
           /\ IF err
              THEN /\ pc' = OnUpsertError(last)
                   /\ exitCode' = ExitOf(OnUpsertError(last), exitCode)
                   /\ UNCHANGED <<store, sent>>
              ELSE /\ store' = StoreUpsert(store, batch)
                   /\ sent' = sent + Len(batch)
                   /\ pc' = IF last THEN "done" ELSE "upsert"
                   /\ exitCode' = IF last THEN 0 ELSE exitCode
    /\ UNCHANGED <<v1site, attempt, last_err, reqLog, sleeps, offset, cursor_updated,
                   cursor_nm, all_rows, v2_pages, v1_pages, v1_total, v2res, v1res, v1_calls,
                   rows, rowsFrom, cleaned, dropped, runNo, store1>>

-----------------------------------------------------------------------------
(* Pagination strategies and main *)

Epoch == "s:1970-01-01T00:00:00Z"

\* a call of fetch_all_cards_v1_cursor from main, at line 179 ("try") or 182 ("except")
StartV1(site) ==
    /\ pc' = "v1"
    /\ v1site' = site
    /\ v1_calls' = v1_calls + 1
    /\ v1res' = "running"
    /\ all_rows' = <<>>
    /\ cursor_updated' = Epoch
    /\ cursor_nm' = "i:0"
    /\ v1_pages' = <<>>
    /\ v1_total' = -1
    /\ ResetRequest

\* all_rows.extend(flat)
ExtendFront(acc, fl) == fl \o acc

Extend(acc, fl) == acc \o fl

\* offset += limit
NextOffsetStuck(off) == off

NextOffset(off) == off + limit

\* main, l.177: `if not rows` decides the fallback on the raw rows of the primary
NeedsFallbackAfterValidation(result) == Clean(result) = <<>>

NeedsFallback(result) == result = <<>>

\* fetch_all_cards_v2: the two break conditions
V2StopsOnlyOnEmpty(its) == its = <<>>

V2Stops(its) == its = <<>> \/ Len(its) < limit

\* fetch_all_cards_v2, one loop iteration whose request ends with status 200
\* and a JSON body holding the list `its`; on a break, the return into main
\* (lines 176-179) and what main does next
V2Page(its) ==
    /\ pc = "v2"
    /\ UpstreamServes(v2_pages, its)
    /\ v2_pages' = Append(v2_pages, its)
    /\ offset' = IF its = <<>> THEN offset ELSE NextOffset(offset)
    /\ LET acc == IF its = <<>> THEN all_rows ELSE Extend(all_rows, _flatten_v2_items(its))
       IN  IF V2Stops(its)
           THEN /\ v2res' = "returned"
                /\ IF NeedsFallback(acc)
                   THEN /\ StartV1("try")
                        /\ UNCHANGED <<rows, rowsFrom, cleaned, dropped, sent, exitCode>>
                   ELSE /\ AfterFetch(acc, "v2")
                        /\ all_rows' = acc
                        /\ ResetRequest
                        /\ UNCHANGED <<v1site, v1_calls, v1res, cursor_updated,
                                       cursor_nm, v1_pages, v1_total>>
           ELSE /\ all_rows' = acc
                /\ ResetRequest
                /\ UNCHANGED <<pc, v1site, v1_calls, v1res, v2res, cursor_updated,
                               cursor_nm, v1_pages, v1_total, rows, rowsFrom, cleaned, dropped,
                               sent, exitCode>>
    /\ UNCHANGED <<batches, store, runNo, store1>>

\* fetch_all_cards_v2, status 200 with a body that is not JSON: resp.json()
\* raises ValueError, an Exception, which main's except clause catches (l.180-182)
V2BadBody ==
    /\ pc = "v2"
    /\ Len(v2_pages) <= MaxPages
    /\ v2res' = "exc"
    /\ StartV1("except")
    /\ UNCHANGED <<offset, v2_pages, rows, rowsFrom, cleaned, dropped, sent,
                   batches, store, exitCode, runNo, store1>>

\* fetch_all_cards_v1_cursor: `if len(items) < limit: break` and `if not items: break`
V1StopsOnlyOnEmpty(its) == its = <<>>

V1Stops(its) == its = <<>> \/ Len(its) < limit

\* cursor_updated = last.get("updatedAt") or cursor_updated
NextCursorUpdatedStale(last, cu) == cu

NextCursorUpdated(last, cu) == Or(Get(last, "updatedAt"), cu)

\* cursor_nm = last.get("nmID") or last.get("nmId") or cursor_nm
NextCursorNm(last, cn) == Or(Or(Get(last, "nmID"), Get(last, "nmId")), cn)

\* remaining-counts the server may report next to a page: fewer than a page, a page or more
Totals == {0, limit}

\* fetch_all_cards_v1_cursor, one loop iteration whose request ends with
\* status 200 and a JSON body holding the list `its` and, in its cursor
\* object, the remaining-count `total` (which the code never reads)
V1Receive(its, total) ==
    /\ pc = "v1"
    /\ v1_pages' = Append(v1_pages, its)
    /\ v1_total' = total
    /\ LET acc  == IF its = <<>> THEN all_rows ELSE Extend(all_rows, _flatten_v1_items(its))
           last == its[Len(its)]
       IN  /\ all_rows' = acc
           /\ cursor_updated' = IF its = <<>> THEN cursor_updated
                                ELSE NextCursorUpdated(last, cursor_updated)
           /\ cursor_nm' = IF its = <<>> THEN cursor_nm
                           ELSE NextCursorNm(last, cursor_nm)
           /\ IF V1Stops(its)
              THEN /\ v1res' = "returned"
                   /\ AfterFetch(acc, "v1")
              ELSE UNCHANGED <<pc, v1res, rows, rowsFrom, cleaned, dropped, sent, exitCode>>
    /\ ResetRequest
    /\ UNCHANGED <<v1site, v1_calls, v2res, offset, v2_pages, batches, store,
                   runNo, store1>>

\* the same, against the upstream of the whole-run model
V1Page(its) ==
    /\ UpstreamServes(v1_pages, its)
    /\ \E total \in Totals : V1Receive(its, total)

\* fetch_all_cards_v1_cursor, status 200 with a body that is not JSON.  The
\* call at line 179 is inside main's try: the except clause catches the
\* ValueError and calls fetch_all_cards_v1_cursor again (l.182).  The call at
\* line 182 is unprotected: the exception ends the process with a traceback.
V1BadBody ==
    /\ pc = "v1"
    /\ Len(v1_pages) <= MaxPages
    /\ IF v1site = "try"
       THEN /\ StartV1("except")
            /\ UNCHANGED exitCode
       ELSE /\ pc' = "fatal"
            /\ exitCode' = 1
            /\ v1res' = "exc"
            /\ ResetRequest
            /\ UNCHANGED <<v1site, v1_calls, all_rows, cursor_updated, cursor_nm,
                           v1_pages, v1_total>>
    /\ UNCHANGED <<v2res, offset, v2_pages, rows, rowsFrom, cleaned, dropped, sent,
                   batches, store, runNo, store1>>

-----------------------------------------------------------------------------
(* The run of main() *)

Init ==
    /\ pc = "v2"
    /\ v1site = "none"
    /\ attempt = 1
    /\ last_err = "None"
    /\ reqLog = <<>>
    /\ sleeps = <<>>
    /\ offset = 0
    /\ cursor_updated = Epoch
    /\ cursor_nm = "i:0"
    /\ all_rows = <<>>
    /\ v2_pages = <<>>
    /\ v1_pages = <<>>
    /\ v1_total = -1
    /\ v2res = "running"
    /\ v1res = "none"
    /\ v1_calls = 0
    /\ rows = <<>>
    /\ rowsFrom = "none"
    /\ cleaned = <<>>
    /\ dropped = 0
    /\ sent = 0
    /\ batches = <<>>
    /\ store = StoreWith(StaleRow)
    /\ exitCode = -1
    /\ runNo = 1
    /\ store1 = EmptyStore
    /\ items = <<>>
    /\ flat = <<>>
    /\ fpc = "done"

Next ==
    \/ (AttemptTransportError /\ UNCHANGED flattenVars)
    \/ (\E status \in Statuses : AttemptTransient(status) /\ UNCHANGED flattenVars)
    \/ (\E status \in Statuses : AttemptHTTPError(status) /\ UNCHANGED flattenVars)
    \/ (\E its \in Pages : V2Page(its) /\ UNCHANGED flattenVars)
    \/ (V2BadBody /\ UNCHANGED flattenVars)
    \/ (\E its \in Pages : V1Page(its) /\ UNCHANGED flattenVars)
    \/ (V1BadBody /\ UNCHANGED flattenVars)
    \/ (\E err \in BOOLEAN : UpsertBatch(err) /\ UNCHANGED flattenVars)

Spec == Init /\ [][Next]_vars

\* the process is scheduled until it ends: every enabled step is eventually taken
FairSpec == Spec /\ WF_vars(Next)

-----------------------------------------------------------------------------
(* The part of the run inside fetch_all_cards_v2 *)

NextV2 ==
    \/ (pc = "v2" /\ AttemptTransportError /\ UNCHANGED flattenVars)
    \/ (\E status \in Statuses : pc = "v2" /\ AttemptTransient(status) /\ UNCHANGED flattenVars)
    \/ (\E status \in Statuses : pc = "v2" /\ AttemptHTTPError(status) /\ UNCHANGED flattenVars)
    \/ (\E its \in Pages : V2Page(its) /\ UNCHANGED flattenVars)
    \/ (V2BadBody /\ UNCHANGED flattenVars)

\* every request gets an answer and the process keeps running
FairV2Spec == Init /\ [][NextV2]_vars /\ WF_vars(NextV2)

-----------------------------------------------------------------------------
(* Harness: _flatten_v2_items applied to one raw card *)

IdlePipeline ==
    /\ v1site = "none"
    /\ attempt = 1
    /\ last_err = "None"
    /\ reqLog = <<>>
    /\ sleeps = <<>>
    /\ offset = 0
    /\ cursor_updated = Epoch
    /\ cursor_nm = "i:0"
    /\ all_rows = <<>>
    /\ v2_pages = <<>>
    /\ v1_pages = <<>>
    /\ v1_total = -1
    /\ v2res = "none"
    /\ v1res = "none"
    /\ v1_calls = 0
    /\ rowsFrom = "none"
    /\ dropped = 0
    /\ sent = 0
    /\ batches = <<>>
    /\ runNo = 1
    /\ store1 = EmptyStore

InitFlatten ==
    /\ IdlePipeline
    /\ pc = "idle"
    /\ rows = <<>>
    /\ cleaned = <<>>
    /\ store = EmptyStore
    /\ exitCode = -1
    /\ items \in { <<c>> : c \in FlatCards }
    /\ flat = <<>>
    /\ fpc = "start"

FlattenCall ==
    /\ fpc = "start"
    /\ flat' = _flatten_v2_items(items)
    /\ fpc' = "done"
    /\ UNCHANGED items
    /\ UNCHANGED pipelineVars

NextFlatten == FlattenCall

FlattenSpec == InitFlatten /\ [][NextFlatten]_vars

-----------------------------------------------------------------------------
(* Harness: upsert_catalog run twice on the same validated rows *)

RowA1 == MakeRow(CardA, CardA.sizes[1], "s:111")

RowA1b == [RowA1 EXCEPT !.brand = "s:br2", !.updated_at_wb = "s:t9"]

RowA2 == MakeRow(CardA, CardA.sizes[1], "s:222")

ValidRows == {RowA1, RowA1b, RowA2}

InitUpsert ==
    /\ IdlePipeline
    /\ cleaned \in SeqsUpTo(ValidRows, MaxRows)
    /\ rows = cleaned
    /\ pc = UpsertEntry(Len(cleaned))
    /\ exitCode = ExitOf(UpsertEntry(Len(cleaned)), -1)
    /\ store \in InitialStores
    /\ items = <<>>
    /\ flat = <<>>
    /\ fpc = "done"

\* upsert_catalog(sb, cleaned) is called a second time with the same rows
Rerun ==
    /\ pc = "done"
    /\ runNo = 1
    /\ runNo' = 2
    /\ store1' = store
    /\ batches' = <<>>
    /\ sent' = 0
    /\ pc' = UpsertEntry(Len(cleaned))
    /\ exitCode' = ExitOf(UpsertEntry(Len(cleaned)), -1)
    /\ UNCHANGED <<v1site, attempt, last_err, reqLog, sleeps, offset, cursor_updated,
                   cursor_nm, all_rows, v2_pages, v1_pages, v1_total, v2res, v1res, v1_calls,
                   rows, rowsFrom, cleaned, dropped, store>>

NextUpsert ==
    \/ (\E err \in BOOLEAN : UpsertBatch(err) /\ UNCHANGED flattenVars)
    \/ (Rerun /\ UNCHANGED flattenVars)

UpsertSpec == InitUpsert /\ [][NextUpsert]_vars

-----------------------------------------------------------------------------
(* Harness: fetch_all_cards_v1_cursor against an upstream that holds a finite
   set of cards and answers every request with cards after the cursor *)

DataCards ==
    << [nmID |-> "i:1", updatedAt |-> "s:t1",
        sizes |-> << [techSize |-> "s:M", sizeID |-> "i:10", skus |-> <<"s:111">>] >>],
       [nmId |-> "i:2", updatedAt |-> "s:t1",
        sizes |-> << [techSize |-> "s:M", sizeID |-> "i:10", skus |-> <<"s:222">>] >>],
       [nmID |-> "i:0", updatedAt |-> "s:t2", sizes |-> <<>>],
       [nmID |-> "i:3", updatedAt |-> "s:t3",
        sizes |-> << [techSizeName |-> "s:L", sizeId |-> "i:20", skus |-> <<"i:333">>] >>] >>

\* the order of the timestamps and of the ids the cursor is compared by
TsRank(t) ==
    CASE t = Epoch  -> 0
      [] t = "s:t1" -> 1
      [] t = "s:t2" -> 2
      [] t = "s:t3" -> 3

NmNum(n) ==
    CASE n = "i:0" -> 0
      [] n = "i:1" -> 1
      [] n = "i:2" -> 2
      [] n = "i:3" -> 3

\* (updatedAt, nmID) order: is cursor <<t1, n1>> strictly before <<t2, n2>>
CursorLess(t1, n1, t2, n2) ==
    \/ TsRank(t1) < TsRank(t2)
    \/ (TsRank(t1) = TsRank(t2) /\ NmNum(n1) < NmNum(n2))

SortNm(c) == IF "nmID" \in DOMAIN c THEN c.nmID ELSE c.nmId

\* a reply: at most `limit` cards of the data set, in sort order, all strictly
\* after the cursor of the request
Replies(cu, cn) ==
    { [k \in 1..Len(ix) |-> DataCards[ix[k]]] :
        ix \in { jx \in SeqsUpTo(1..Len(DataCards), limit) :
                   /\ \A k \in 1..(Len(jx) - 1) : jx[k] < jx[k + 1]
                   /\ \A k \in 1..Len(jx) :
                         CursorLess(cu, cn, DataCards[jx[k]].updatedAt,
                                    SortNm(DataCards[jx[k]])) } }

\* main has just called fetch_all_cards_v1_cursor, after fetch_all_cards_v2
\* returned no rows (l.179) or raised (l.182)
InitCursor ==
    /\ pc = "v1"
    /\ v1site \in {"try", "except"}
    /\ attempt = 1
    /\ last_err = "None"
    /\ reqLog = <<>>
    /\ sleeps = <<>>
    /\ offset = 0
    /\ cursor_updated = Epoch
    /\ cursor_nm = "i:0"
    /\ all_rows = <<>>
    /\ v2_pages = IF v1site = "try" THEN << <<>> >> ELSE <<>>
    /\ v1_pages = <<>>
    /\ v1_total = -1
    /\ v2res = IF v1site = "try" THEN "returned" ELSE "exc"
    /\ v1res = "running"
    /\ v1_calls = 1
    /\ rows = <<>>
    /\ rowsFrom = "none"
    /\ cleaned = <<>>
    /\ dropped = 0
    /\ sent = 0
    /\ batches = <<>>
    /\ store = StoreWith(StaleRow)
    /\ exitCode = -1
    /\ runNo = 1
    /\ store1 = EmptyStore
    /\ items = <<>>
    /\ flat = <<>>
    /\ fpc = "done"

\* one page from the data set; no strategy needs more requests than there are cards
V1DataPage ==
    /\ Len(v1_pages) <= Len(DataCards)
    /\ \E its \in Replies(cursor_updated, cursor_nm) :
          \E total \in Totals : V1Receive(its, total)

NextCursor ==
    \/ (pc = "v1" /\ AttemptTransportError /\ UNCHANGED flattenVars)
    \/ (\E status \in Statuses : pc = "v1" /\ AttemptTransient(status) /\ UNCHANGED flattenVars)
    \/ (\E status \in Statuses : pc = "v1" /\ AttemptHTTPError(status) /\ UNCHANGED flattenVars)
    \/ (V1DataPage /\ UNCHANGED flattenVars)

\* every request gets an answer and the process keeps running
FairCursorSpec == InitCursor /\ [][NextCursor]_vars /\ WF_vars(NextCursor)

-----------------------------------------------------------------------------
(* Properties *)

AllTransient(log) == \A i \in 1..Len(log) : log[i] \in TransientStatuses

Concluded == pc \in {"done", "fatal"}

RECURSIVE FlattenPages(_)
FlattenPages(log) ==
    IF log = <<>> THEN <<>>
    ELSE _flatten_v2_items(Head(log)) \o FlattenPages(Tail(log))

\* fetch_all_cards_v2 ran to its return statement and returned an empty list
V2ReturnedNothing == v2res = "returned" /\ FlattenPages(v2_pages) = <<>>

\* C1: a request never gets more than MAX_RETRIES attempts; while every
\* response of the request in flight has been a transient-failure status the
\* executor is still retrying it (attempt k+1 after k responses) until the
\* MAX_RETRIES-th response, after which the run has failed with exit status 1;
\* and a run that failed in the executor did so after exactly MAX_RETRIES attempts.
RetryBound ==
    /\ Len(reqLog) <= MAX_RETRIES
    /\ (reqLog # <<>> /\ AllTransient(reqLog)) =>
          IF Len(reqLog) = MAX_RETRIES
          THEN pc = "fatal" /\ exitCode = 1 /\ "exit" \in {v2res, v1res}
          ELSE pc \in {"v2", "v1"} /\ attempt = Len(reqLog) + 1
    /\ ("exit" \in {v2res, v1res}) => Len(reqLog) = MAX_RETRIES

RetryBoundWitness ==
    /\ pc = "fatal"
    /\ Len(reqLog) = MAX_RETRIES
    /\ AllTransient(reqLog)
    /\ 429 \in {reqLog[i] : i \in 1..Len(reqLog)}

\* C2: a response with a 4xx status other than 429 ends the request at once:
\* it is the first and only attempt, nothing has been slept, and the request
\* has failed.
NoRetryOnClientError ==
    \A i \in 1..Len(reqLog) :
        (reqLog[i] >= 400 /\ reqLog[i] <= 499 /\ reqLog[i] # 429) =>
            /\ i = 1
            /\ Len(reqLog) = 1
            /\ sleeps = <<>>
            /\ pc \notin {"v2", "v1"}

\* C3: once the run has concluded after fetch_all_cards_v2 returned zero rows,
\* fetch_all_cards_v1_cursor has been invoked exactly once.
FallbackExactlyOnce ==
    (V2ReturnedNothing /\ Concluded) => v1_calls = 1

\* C4: when fetch_all_cards_v2 fails permanently (its executor exhausted the
\* retries) the secondary strategy has been started, the run has not failed
\* because of the primary, and a run that completes took its rows from the
\* secondary.
PermanentFailureFallsBack ==
    v2res = "exit" =>
        /\ v1_calls >= 1
        /\ (pc = "fatal" => v1res \in {"exit", "exc"})
        /\ (pc = "done" => rowsFrom = "v1")

\* C5: the secondary strategy is started at most once per run, and once an
\* invocation of it has failed the run is in the fatal state and no batch was
\* handed to the sink.
SingleShotFallback ==
    /\ v1_calls <= 1
    /\ v1res \in {"exit", "exc"} => (pc = "fatal" /\ batches = <<>>)

\* C6 as stated: a concluded run in which both strategies returned and nothing
\* passed validation is in the fatal state with a non-zero exit status.
BothEmptyIsFatal ==
    (v2res = "returned" /\ v1res = "returned" /\ cleaned = <<>> /\ Concluded) =>
        (pc = "fatal" /\ exitCode # 0)

\* C6 amended: when both strategies returned and nothing passed validation
\* (no rows at all, or only rows that validation dropped), upsert_catalog
\* returns without calling the sink and the run ends normally: "Done", exit
\* status 0.
BothEmptyEndsDone ==
    (v2res = "returned" /\ v1res = "returned" /\ cleaned = <<>>) =>
        (pc = "done" /\ exitCode = 0 /\ batches = <<>> /\ sent = 0)

BothEmptyEndsDoneWitness ==
    /\ v2res = "returned"
    /\ v1res = "returned"
    /\ V2ReturnedNothing
    /\ rows # <<>>
    /\ cleaned = <<>>
    /\ dropped = Len(rows)
    /\ pc = "done"

\* a key field the validation treats as absent (None, or an empty/zero value)
Missing(v) == v \in {None, "s:", "i:0"}

KeyMissing(r) == Missing(r.nm_id) \/ Missing(r.barcode)

\* C7: every row of every batch handed to the sink has an nm_id and a barcode;
\* the rows of the strategy's result that lack one are exactly the rows left
\* out of `cleaned`, and `dropped` is their number.
KeyValidity ==
    /\ \A b \in 1..Len(batches) : \A i \in 1..Len(batches[b]) :
           ~KeyMissing(batches[b][i])
    /\ \A i \in 1..Len(cleaned) : ~KeyMissing(cleaned[i])
    /\ dropped = Cardinality({i \in 1..Len(rows) : KeyMissing(rows[i])})
    /\ Len(cleaned) = Len(rows) - dropped

KeyValidityWitness ==
    /\ batches # <<>>
    /\ dropped > 0
    /\ Len(cleaned) > 0

\* the raw card given to the flatten harness, its variants and their barcodes
TheCard == items[1]

TheSizes == GetList(TheCard, "sizes")

SkusOf(i) == GetList(TheSizes[i], "skus")

\* positions <<variant, barcode>> of the non-falsy barcodes of the card
KeptPairs ==
    { p \in (1..Len(TheSizes)) \X (1..MaxSkus + 1) :
          p[2] <= Len(SkusOf(p[1])) /\ SkusOf(p[1])[p[2]] \notin Falsy }

\* kept positions that come earlier in variant order, then barcode order
KeptBefore(p) ==
    { q \in KeptPairs : q[1] < p[1] \/ (q[1] = p[1] /\ q[2] < p[2]) }

RECURSIVE SumOfSkusLengths(_)
SumOfSkusLengths(sizes) ==
    IF sizes = <<>> THEN 0
    ELSE Len(GetList(Head(sizes), "skus")) + SumOfSkusLengths(Tail(sizes))

NoFalsyBarcode ==
    \A i \in 1..Len(TheSizes) : \A j \in 1..Len(SkusOf(i)) : SkusOf(i)[j] \notin Falsy

\* the text of a barcode as a Python string
BarcodeAsString(bc) == IF bc = "i:333" THEN "s:333" ELSE bc

FirstOf(d, k1, k2) == IF Get(d, k1) \notin Falsy THEN Get(d, k1) ELSE Get(d, k2)

\* C8: the rows of one raw card are, in variant order then barcode order, one
\* row per non-falsy barcode: their number is the number of such barcodes (the
\* sum of the barcode-list lengths when none is falsy, zero for a card without
\* variants or with empty lists only), and the row of each barcode carries the
\* card's shared fields, its variant's tech_size/size_id and the barcode as a
\* string.
FlattenCorrect ==
    fpc = "done" =>
        /\ Len(flat) = Cardinality(KeptPairs)
        /\ NoFalsyBarcode => Len(flat) = SumOfSkusLengths(TheSizes)
        /\ (\A i \in 1..Len(TheSizes) : SkusOf(i) = <<>>) => flat = <<>>
        /\ \A p \in KeptPairs :
              LET r == flat[Cardinality(KeptBefore(p)) + 1]
                  s == TheSizes[p[1]]
              IN  /\ r.nm_id = FirstOf(TheCard, "nmID", "nmId")
                  /\ r.imt_id = FirstOf(TheCard, "imtID", "imtId")
                  /\ r.vendor_code = Get(TheCard, "vendorCode")
                  /\ r.brand = Get(TheCard, "brand")
                  /\ r.subject = FirstOf(TheCard, "subjectName", "subject")
                  /\ r.updated_at_wb = Get(TheCard, "updatedAt")
                  /\ r.tech_size = FirstOf(s, "techSize", "techSizeName")
                  /\ r.size_id = FirstOf(s, "sizeID", "sizeId")
                  /\ r.barcode \in StrValues
                  /\ r.barcode = BarcodeAsString(SkusOf(p[1])[p[2]])

FlattenCorrectWitness ==
    /\ fpc = "done"
    /\ Len(TheSizes) = 2
    /\ SkusOf(1) = <<"s:", "i:333">>
    /\ Len(SkusOf(2)) = 2
    /\ Len(flat) = 2
    /\ flat[1].barcode = "s:333"
    /\ flat[2].tech_size # flat[1].tech_size

KeysOf(rs) == { RowKey(rs[i]) : i \in 1..Len(rs) }

\* the last row of rs that has key k
LatestFor(rs, k) ==
    rs[CHOOSE i \in 1..Len(rs) :
          /\ RowKey(rs[i]) = k
          /\ \A j \in (i + 1)..Len(rs) : RowKey(rs[j]) # k]

\* C9: after upsert_catalog has run twice to completion on the same validated
\* rows, the table equals the table after the first run: the same keys (row
\* count unchanged), every key of the input present, each holding the latest
\* input row for that key, and every other row untouched.
IdempotentUpsert ==
    (runNo = 2 /\ pc = "done") =>
        /\ store = store1
        /\ Cardinality(DOMAIN store) = Cardinality(DOMAIN store1)
        /\ KeysOf(cleaned) \subseteq DOMAIN store
        /\ \A k \in KeysOf(cleaned) : store[k] = LatestFor(cleaned, k)

IdempotentUpsertWitness ==
    /\ runNo = 2
    /\ pc = "done"
    /\ Len(batches) = 2
    /\ cleaned = <<RowA1, RowA2, RowA1b>>
    /\ store[RowKey(RowA1)] = RowA1b
    /\ Cardinality(DOMAIN store) = 2

\* every page fetch_all_cards_v2 received before its latest one was full
EarlierPagesFull ==
    \A i \in 1..(Len(v2_pages) - 1) : Len(v2_pages[i]) = limit

\* C10 (safety part): fetch_all_cards_v2 requests a further page only after
\* full pages, and it has returned exactly when the latest page is empty or
\* shorter than limit.
StopsAtFirstShortPage ==
    /\ EarlierPagesFull
    /\ v2res = "running" => \A i \in 1..Len(v2_pages) : Len(v2_pages[i]) = limit
    /\ v2res = "returned" =>
          (v2_pages # <<>> /\ Len(v2_pages[Len(v2_pages)]) < limit)

\* C10: fetch_all_cards_v2 stops at the first empty or short page and
\* requests nothing after it; against an upstream that serves finitely many
\* full pages and then a short or empty one, it terminates.
OffsetTermination ==
    /\ []StopsAtFirstShortPage
    /\ (v2res = "running") ~> (v2res # "running")

OffsetTerminationWitness ==
    /\ v2res = "returned"
    /\ Len(v2_pages) >= 3
    /\ Len(v2_pages[Len(v2_pages)]) = 1
    /\ offset = limit * Len(v2_pages)

\* C11 as stated: after a page whose reported remaining-count is smaller than
\* the page size (or an empty page) the cursor strategy has stopped: it is
\* still running only after non-empty pages with a remaining-count of at least
\* limit.
CursorStopsOnRemainingCount ==
    (v1res = "running" /\ v1_pages # <<>>) =>
        (v1_pages[Len(v1_pages)] # <<>> /\ v1_total >= limit)

\* C11 amended: fetch_all_cards_v1_cursor stops after a page exactly when the
\* batch is empty or holds fewer than limit cards; the reported remaining-count
\* plays no part, so after a full page it goes on whatever that count is.
CursorStopsOnShortPage ==
    /\ v1res = "running" => \A i \in 1..Len(v1_pages) : Len(v1_pages[i]) = limit
    /\ v1res = "returned" =>
          (v1_pages # <<>> /\ Len(v1_pages[Len(v1_pages)]) < limit)
    /\ \A i \in 1..(Len(v1_pages) - 1) : Len(v1_pages[i]) = limit

CursorStopsOnShortPageWitness ==
    /\ v1res = "running"
    /\ pc = "v1"
    /\ Len(v1_pages) = 2
    /\ Len(v1_pages[2]) = limit
    /\ v1_total < limit

\* a page was received and the strategy goes on to a further request whose
\* cursor lies strictly after the cursor of the request just answered
CursorAdvances ==
    (v1_pages' # v1_pages /\ v1res' = "running") =>
        CursorLess(cursor_updated, cursor_nm, cursor_updated', cursor_nm')

\* C12: against a finite data set served in cursor order, every further
\* request of fetch_all_cards_v1_cursor carries a strictly later cursor (no
\* cursor is requested twice), and the invocation ends after finitely many
\* requests.
CursorTermination ==
    /\ [][CursorAdvances]_vars
    /\ (v1res = "running") ~> (v1res # "running")

CursorTerminationWitness ==
    /\ v1res = "returned"
    /\ Len(v1_pages) = 3
    /\ v1_pages[2] = <<DataCards[3], DataCards[4]>>
    /\ cursor_updated = "s:t3"
    /\ cursor_nm = "i:3"

RECURSIVE Concat(_)
Concat(ss) == IF ss = <<>> THEN <<>> ELSE Head(ss) \o Concat(Tail(ss))

Front(ss) == SubSeq(ss, 1, Len(ss) - 1)

\* the table after the batches bs have all been written to the table st
RECURSIVE Written(_, _)
Written(st, bs) ==
    IF bs = <<>> THEN st ELSE Written(StoreUpsert(st, Head(bs)), Tail(bs))

\* C13: while no upsert call has reported an error every batch sent is
\* committed and counted; once a call reports an error the run is in the fatal
\* state with exit status 1, the failing batch is the last one ever sent, and
\* the table holds every batch sent before it (and nothing of the failing one).
FailedBatchIsFatal ==
    /\ pc \in {"upsert", "done"} =>
          /\ sent = Len(Concat(batches))
          /\ store = Written(StoreWith(StaleRow), batches)
    /\ (pc = "fatal" /\ batches # <<>>) =>
          /\ exitCode = 1
          /\ sent = Len(Concat(Front(batches)))
          /\ store = Written(StoreWith(StaleRow), Front(batches))
          /\ Len(batches) <= Len(chunked(cleaned, BATCH_SIZE))

FailedBatchIsFatalWitness ==
    /\ pc = "fatal"
    /\ Len(batches) = 3
    /\ Len(chunked(cleaned, BATCH_SIZE)) > 3
    /\ sent = 2 * BATCH_SIZE
    /\ store # StoreWith(StaleRow)

\* C14: the batches sent so far are, concatenated in send order, a prefix of
\* the validated rows, and all of them once upsert_catalog has returned; no
\* batch is empty or longer than BATCH_SIZE, and every batch before the latest
\* has exactly BATCH_SIZE rows.
BatchingIsPartition ==
    /\ Concat(batches) = SubSeq(cleaned, 1, Len(Concat(batches)))
    /\ Len(Concat(batches)) <= Len(cleaned)
    /\ pc = "done" => Concat(batches) = cleaned
    /\ \A b \in 1..Len(batches) :
          /\ Len(batches[b]) >= 1
          /\ Len(batches[b]) <= BATCH_SIZE
          /\ b < Len(batches) => Len(batches[b]) = BATCH_SIZE

BatchingIsPartitionWitness ==
    /\ pc = "done"
    /\ Len(batches) >= 2
    /\ Len(batches[Len(batches)]) < BATCH_SIZE
    /\ Len(batches[1]) = BATCH_SIZE

\* C15 as stated: when the cursor strategy has received a page and is about to
\* issue the next page request, it has paused since that page.
PauseBetweenPages ==
    (pc = "v1" /\ v1res = "running" /\ v1_pages # <<>> /\ reqLog = <<>>) =>
        sleeps # <<>>

\* C15 amended: the process sleeps only as retry backoff: one sleep of
\* min(30, 2^attempt) after each failed attempt and none otherwise, so the
\* first attempt of every page request, also of the one that follows a
\* received page, is made with nothing slept since that page.
OnlyBackoffSleeps ==
    /\ Len(sleeps) = Len(reqLog)
    /\ \A i \in 1..Len(sleeps) :
          /\ sleeps[i] = IF 2 ^ i < 30 THEN 2 ^ i ELSE 30
          /\ reqLog[i] # 200
    /\ (pc \in {"v1", "v2"} /\ attempt = 1) => sleeps = <<>>

OnlyBackoffSleepsWitness ==
    /\ pc = "v1"
    /\ v1res = "running"
    /\ Len(v1_pages) = 2
    /\ attempt = 2
    /\ reqLog = <<503>>
    /\ sleeps = <<2>>

\* a step that stays within the strategy invocation in progress
SameInvocation == v1_calls' = v1_calls

AppendsOnly ==
    SameInvocation =>
        /\ Len(all_rows') >= Len(all_rows)
        /\ SubSeq(all_rows', 1, Len(all_rows)) = all_rows

\* C16: while a strategy invocation runs, its accumulated list is the
\* concatenation, in the order the pages were received, of the rows flattened
\* from each page (cards in the order of the page); and no step of an
\* invocation removes or reorders rows: the list before the step is a prefix
\* of the list after it.
AccumulatedInFetchOrder ==
    /\ [](/\ v2res = "running" => all_rows = FlattenPages(v2_pages)
          /\ v1res = "running" => all_rows = FlattenPages(v1_pages)
          /\ (v2res = "returned" /\ v1res = "none") => all_rows = FlattenPages(v2_pages)
          /\ v1res = "returned" => all_rows = FlattenPages(v1_pages))
    /\ [][AppendsOnly]_vars

AccumulatedInFetchOrderWitness ==
    /\ pc = "v1"
    /\ v1res = "running"
    /\ Len(v1_pages) = 2
    /\ _flatten_v1_items(v1_pages[1]) # <<>>
    /\ _flatten_v1_items(v1_pages[2]) # <<>>
    /\ _flatten_v1_items(v1_pages[1]) # _flatten_v1_items(v1_pages[2])
    /\ v1_pages[2][1] # v1_pages[2][2]
    /\ all_rows = _flatten_v1_items(v1_pages[1]) \o _flatten_v1_items(v1_pages[2])

OffsetGrows ==
    /\ offset' >= offset
    /\ (v2_pages' # v2_pages /\ v2res' = "running") => offset' > offset

\* C17: the k-th page request of fetch_all_cards_v2 carries offset (k-1)*limit,
\* whatever the pages before it held; the offset never decreases, and it is
\* larger for each further request.
OffsetAdvance ==
    /\ [](v2res = "running" => offset = Len(v2_pages) * limit)
    /\ [][OffsetGrows]_vars

OffsetAdvanceWitness ==
    /\ pc = "v2"
    /\ v2res = "running"
    /\ Len(v2_pages) = MaxPages
    /\ offset = MaxPages * limit
    /\ v2_pages[1] # v2_pages[2]

\* the value of the first spelling if that key is present, else of the second
FirstPresent(d, k1, k2) == IF k1 \in DOMAIN d THEN d[k1] ELSE Get(d, k2)

\* C18: each aliased field of a flattened row is the value of the first
\* spelling whenever that key is present in the raw record, and the value of
\* the second spelling only when the first key is absent.
FirstPresentSpellingWins ==
    fpc = "done" =>
        \A p \in KeptPairs :
            LET r == flat[Cardinality(KeptBefore(p)) + 1]
                s == TheSizes[p[1]]
            IN  /\ r.nm_id = FirstPresent(TheCard, "nmID", "nmId")
                /\ r.imt_id = FirstPresent(TheCard, "imtID", "imtId")
                /\ r.subject = FirstPresent(TheCard, "subjectName", "subject")
                /\ r.tech_size = FirstPresent(s, "techSize", "techSizeName")
                /\ r.size_id = FirstPresent(s, "sizeID", "sizeId")

\* C19: when _retryable_request has failed permanently after its last attempt,
\* the failure it raises carries a non-null last error, whether the attempts
\* failed with transport exceptions or with transient statuses.
CausePropagated ==
    ("exit" \in {v2res, v1res}) => last_err # "None"

\* C20: a primary strategy that returned at least one raw row is never followed
\* by the secondary strategy, also when validation keeps none of its rows; and
\* the rows handed to validation are the rows of one strategy invocation: the
\* primary's, or those of the latest invocation of the secondary.
FallbackOnRawCount ==
    /\ (v2res = "returned" /\ FlattenPages(v2_pages) # <<>>) =>
          /\ v1_calls = 0
          /\ v1res = "none"
          /\ rowsFrom = "v2"
    /\ rowsFrom = "v2" => (rows = FlattenPages(v2_pages) /\ v1_calls = 0)
    /\ rowsFrom = "v1" =>
          /\ rows = FlattenPages(v1_pages)
          /\ v1res = "returned"
          /\ v2res = "returned" => FlattenPages(v2_pages) = <<>>
    /\ rowsFrom # "none" => cleaned = Clean(rows)

FallbackOnRawCountWitness ==
    /\ pc = "done"
    /\ rowsFrom = "v2"
    /\ rows # <<>>
    /\ cleaned = <<>>
    /\ dropped = Len(rows)
    /\ v1_calls = 0

====
